---- MODULE Spec2Model ----
(***************************************************************************)
(* Model of the grizzly async-message daemon                               *)
(* (grizzly_extras/async_message/daemon.py): the router loop, the workers  *)
(* it spawns, and the REQ clients that talk to its frontend socket.        *)
(*                                                                         *)
(* Transport assumptions (pyzmq, not code of this repository): every       *)
(* connection is a lossless FIFO pipe; a ROUTER socket reads from any peer *)
(* that has a message queued; a ROUTER socket silently drops a message     *)
(* addressed to an identity that is not a connected peer                   *)
(* (ROUTER_MANDATORY is not set by create_router_socket); a REQ socket     *)
(* alternates send and receive.                                            *)
(***************************************************************************)
EXTENDS Integers, Sequences, FiniteSets, TLC

\* ---------------------------------------------------------------- bounds
MaxRequests == 2

\* ------------------------------------------------------------- constants
\* identities of the REQ sockets connected to the frontend
Clients == {"c1", "c2"}
\* values of the `client` field of a request; "None" when the field is absent
ClientIds == {"a", "b"}
NoClient == "None"
\* scheme of context.url; "" when the request has no url
Schemes == {"mq", ""}
NoWorker == 0
\* one worker at start and at most one more for every request
WorkerIds == 1..(MaxRequests + 1)
LRU_READY == "READY"
NoIdentity == "None"
NoIntegration == "None"

ClientKeys == ClientIds \X Schemes
NoKey == <<NoClient, "">>

\* ------------------------------------------------------------------ state
\* LRU_READY is imported from the package's __init__ module. The router parses
\* the last frame of every backend message with json.loads and calls .get on
\* the result before it tests for the sentinel, so a READY message can be
\* processed only if the sentinel is the text of a JSON object; both kinds of
\* sentinel are kept: ready_is_json_object is fixed by Init.
VARIABLES
    ready_is_json_object,   \* json.loads(LRU_READY) yields a dict
    run_daemon,             \* the shared Event
    router_pc,              \* "loop", "stopping", "waiting", "stopped"
    router_exc,             \* exception that ended the router loop, or "none"
    stop_idx,               \* position of the shutdown iteration over workers
    workers,                \* ids of spawned workers, in insertion order of the dict
    workers_available,
    client_worker_map,
    worker_identifiers_map,
    frontend_in,            \* per client: requests sent and not yet read by the router
    frontend_out,           \* per client: responses sent by the router and not yet read
    backend_in,             \* per worker: messages sent and not yet read by the router
    backend_out,            \* per worker: requests sent by the router and not yet read
    worker_pc,              \* per worker: "none", "submitted", "running", "stopped",
                            \* "failed" (Worker.run ended with an exception)
    integration,            \* per worker: bound integration
    handling,               \* per worker: requests received and not yet answered
    waiting,                \* per client: a request is outstanding on its REQ socket
    next_request_id,
    dispatched,             \* history: what the router forwarded to the backend
    accepted,               \* history: per client, requests the router read
    frontend_log,           \* history: per client, everything the router sent to it
    handled,                \* history: per worker, the requests in the order received
    \* the MQ integration (grizzly_extras.async_message.mq), taken by itself
    variant,                \* "native" (mq.py, pymqi) or "http" (mq/__init__.py, requests)
    handlers,               \* the module's registry: action -> registered function
    load_pc,                \* number of @register decorators evaluated by the import
    handler,                \* fields of the AsyncMessageQueueHandler instance
    queue,                  \* messages on the backend queue
    response,               \* what the last call of handle returned
    effect,                 \* history: what the last call of handle did at the backend
    call,                   \* history: the request of the last call on the queue
    browse,                 \* one run of _find_message on a queue without a match
    retry,                  \* one PUT or GET of the HTTP module at the transport
    consumers,              \* the GET with expression each of several workers runs
    client_calls,           \* the calls of async_message_request of one client
    parent,                 \* main, the process it starts and the Event of each
    executor                \* the ThreadPoolExecutor of the router and its work items

vars == <<ready_is_json_object, run_daemon, router_pc, router_exc, stop_idx, workers,
          workers_available, client_worker_map, worker_identifiers_map,
          frontend_in, frontend_out, backend_in, backend_out, worker_pc,
          integration, handling, waiting, next_request_id, dispatched,
          accepted, frontend_log, handled,
          variant, handlers, load_pc, handler, queue, response, effect, call,
          browse, retry, consumers, client_calls, parent, executor>>

routerVars == <<router_pc, router_exc, stop_idx, workers, workers_available,
                client_worker_map, worker_identifiers_map>>
historyVars == <<dispatched, accepted, frontend_log, handled>>
processVars == <<parent, executor>>
unitVars == <<browse, retry, consumers, client_calls, processVars>>
handlerVars == <<variant, handlers, load_pc, handler, queue, response, effect, call, unitVars>>

\* ---------------------------------------------------------------- helpers
\* executor.submit(worker.run) for a freshly minted identity
spawn_worker(ws, pcs) ==
    LET identity == Len(ws) + 1
    IN  [workers |-> Append(ws, identity),
         worker_pc |-> [pcs EXCEPT ![identity] = "submitted"]]

\* action strings: those of the protocol, one no module registers, and the
\* one the tests register
Actions == {"CONN", "DISC", "PUT", "SEND", "GET", "RECEIVE", "NONE", "TEST"}
NoHandler == "None"
None == "None"

\* context of a request, None when the request has none; key_file selects the
\* TLS path of the native connect
Contexts ==
    [queue_manager : {"qm1", "qm2"}, key_file : {None, "key.kdb"}, message_wait : {0, 5}]
\* request.get('context', None) of a request without context
NoContext == [queue_manager |-> None, key_file |-> None, message_wait |-> 0]

\* context.endpoint as the list of its "key:value" parts; <<>> when the
\* context has no endpoint
NoEndpoint == <<>>
Part(key, value) == [key |-> key, value |-> value]
PlainEndpoint == <<Part("queue", "q")>>
\* context.message_wait of a PUT or GET; Unset when the context has none
Unset == -1
\* before the first call on the queue
NoCall ==
    [action |-> None, context |-> NoContext, payload |-> None,
     endpoint |-> NoEndpoint, message_wait |-> Unset]

\* nothing runs in the parts of the handler and the client that are
\* followed step by step
Idle == [pc |-> "idle"]
InitUnits ==
    /\ browse = Idle
    /\ retry = Idle
    /\ consumers = Idle
    /\ client_calls = Idle
    /\ parent = Idle
    /\ executor = Idle

\* a module that has not been imported and an instance as __init__ leaves it
InitHandler ==
    /\ handlers = [a \in Actions |-> NoHandler]
    /\ load_pc = 0
    /\ handler = [link |-> None, url |-> None, message_wait |-> 0]
    /\ queue = <<>>
    /\ response = [success |-> FALSE, worker |-> NoWorker, message |-> None,
                   payload |-> None, response_length |-> 0, response_time |-> 0]
    /\ effect = [backend |-> FALSE, waited |-> 0, taken |-> 0]
    /\ call = NoCall
    /\ InitUnits

\* the router after the statements before its loop
InitDaemon ==
    /\ ready_is_json_object \in BOOLEAN
    /\ run_daemon = FALSE
    /\ router_pc = "loop"
    /\ router_exc = "none"
    /\ stop_idx = 1
    /\ workers = spawn_worker(<<>>, [w \in WorkerIds |-> "none"]).workers
    /\ worker_pc = spawn_worker(<<>>, [w \in WorkerIds |-> "none"]).worker_pc
    /\ workers_available = <<>>
    /\ client_worker_map = [k \in ClientKeys |-> NoWorker]
    /\ worker_identifiers_map = [w \in WorkerIds |-> NoIdentity]
    /\ frontend_in = [c \in Clients |-> <<>>]
    /\ frontend_out = [c \in Clients |-> <<>>]
    /\ backend_in = [w \in WorkerIds |-> <<>>]
    /\ backend_out = [w \in WorkerIds |-> <<>>]
    /\ integration = [w \in WorkerIds |-> NoIntegration]
    /\ handling = [w \in WorkerIds |-> {}]
    /\ waiting = [c \in Clients |-> FALSE]
    /\ next_request_id = 1
    /\ dispatched = {}
    /\ accepted = [c \in Clients |-> 0]
    /\ frontend_log = [c \in Clients |-> <<>>]
    /\ handled = [w \in WorkerIds |-> <<>>]

\* the daemon; `from .mq import ...` finds the package directory mq/ before
\* the module mq.py
Init ==
    /\ InitDaemon
    /\ InitHandler
    /\ variant = "http"

\* ----------------------------------------------------------------- frames
\* A frame is either raw bytes or the JSON encoding of an object
RawFrame(s) == [raw |-> s]
JsonFrame(obj) == [json |-> obj]

\* json.loads(frame.decode()) followed by .get(...): raises unless the frame
\* holds a JSON object
JsonLoadsRaises(frame, ready_ok) ==
    /\ "raw" \in DOMAIN frame
    /\ ~(frame.raw = LRU_READY /\ ready_ok)

Last(s) == s[Len(s)]

\* worker ids that clients have seen in the `worker` field of a response
KnownWorkers ==
    UNION {{frontend_log[c][i].worker :
                i \in 1..(Len(frontend_log[c]) - Len(frontend_out[c]))} : c \in Clients}

\* socket.send_multipart on a ROUTER socket: frame 0 addresses the peer
RouterSend(pipes, frames) ==
    IF frames[1].raw \in DOMAIN pipes
    THEN [pipes EXCEPT ![frames[1].raw] = Append(@, frames[2].json)]
    ELSE pipes

\* ---------------------------------------------------------------- clients
\* async_message_request / AtomicMessageQueue: send one request on the REQ socket
ClientSend(c, client, scheme, worker) ==
    /\ ~waiting[c]
    /\ next_request_id <= MaxRequests
    /\ worker \in {NoWorker} \cup KnownWorkers
    /\ frontend_in' = [frontend_in EXCEPT ![c] =
            Append(@, [request_id |-> next_request_id, client |-> client,
                       scheme |-> scheme, worker |-> worker])]
    /\ waiting' = [waiting EXCEPT ![c] = TRUE]
    /\ next_request_id' = next_request_id + 1
    /\ UNCHANGED <<ready_is_json_object, handlerVars, run_daemon, routerVars, frontend_out,
                   backend_in, backend_out, worker_pc, integration, handling,
                   historyVars>>

\* the polling loop of async_message_request gets the response
ClientRecv(c) ==
    /\ waiting[c]
    /\ frontend_out[c] # <<>>
    /\ frontend_out' = [frontend_out EXCEPT ![c] = Tail(@)]
    /\ waiting' = [waiting EXCEPT ![c] = FALSE]
    /\ UNCHANGED <<ready_is_json_object, handlerVars, run_daemon, routerVars, frontend_in,
                   backend_in, backend_out, worker_pc, integration, handling,
                   next_request_id, historyVars>>

\* ----------------------------------------------------------------- router
\* an exception inside the try block: logged, the executor is left, the event is set
RouterRaise(exc) ==
    /\ router_pc' = "stopped"
    /\ router_exc' = exc
    /\ run_daemon' = TRUE

\* one backend message of a loop iteration
RouterBackend(w) ==
    /\ router_pc = "loop"
    /\ ~run_daemon
    /\ backend_in[w] # <<>>
    /\ LET backend_response == Head(backend_in[w])
           reply == backend_response
       IN  /\ backend_in' = [backend_in EXCEPT ![w] = Tail(@)]
           /\ IF JsonLoadsRaises(Last(backend_response), ready_is_json_object)
              THEN /\ RouterRaise("JSONDecodeError")
                   /\ UNCHANGED <<worker_identifiers_map, workers_available,
                                  frontend_out, frontend_log>>
              ELSE /\ worker_identifiers_map' =
                        [worker_identifiers_map EXCEPT ![w] = reply[1].raw]
                   /\ IF reply[1].raw # LRU_READY
                      THEN /\ frontend_out' = RouterSend(frontend_out, reply)
                           /\ frontend_log' = RouterSend(frontend_log, reply)
                           /\ UNCHANGED workers_available
                      ELSE /\ workers_available' = Append(workers_available, w)
                           /\ UNCHANGED <<frontend_out, frontend_log>>
                   /\ UNCHANGED <<router_pc, router_exc, run_daemon>>
    /\ UNCHANGED <<ready_is_json_object, handlerVars, stop_idx, workers, client_worker_map,
                   frontend_in, backend_out, worker_pc, integration, handling,
                   waiting, next_request_id, dispatched, accepted, handled>>

\* f'{request_client_id}::{scheme}', None when the request names no client
ClientKey(payload) ==
    IF payload.client # NoClient THEN <<payload.client, payload.scheme>> ELSE NoKey

\* mutation: the affinity map is not consulted
LookupWorkerNoMap(payload, map) == payload.worker

\* client_worker_map.get(client_key) when the request names no worker
LookupWorker(payload, map) ==
    IF payload.worker = NoWorker /\ ClientKey(payload) # NoKey
    THEN map[ClientKey(payload)]
    ELSE payload.worker

\* mutation: the worker is read from the end of the list and left on it
AfterPeek(available) == available

\* workers_available after workers_available.pop()
AfterPop(available) == SubSeq(available, 1, Len(available) - 1)

\* mutation: the test for an emptied pool is inverted
SpawnWhenLeft(available) == Len(available) > 0

\* len(workers_available) == 0 after the pop
SpawnNeeded(available) == Len(available) = 0

\* one frontend message of a loop iteration
RouterFrontend(c) ==
    /\ router_pc = "loop"
    /\ ~run_daemon
    /\ frontend_in[c] # <<>>
    /\ LET payload == Head(frontend_in[c])
           client_key == ClientKey(payload)
           request_worker_id == LookupWorker(payload, client_worker_map)
       IN  /\ frontend_in' = [frontend_in EXCEPT ![c] = Tail(@)]
           /\ accepted' = [accepted EXCEPT ![c] = @ + 1]
           /\ IF request_worker_id = NoWorker
              THEN IF workers_available = <<>>
                   THEN \* list.pop() on an empty list
                        /\ RouterRaise("IndexError")
                        /\ UNCHANGED <<workers, workers_available, client_worker_map,
                                       backend_out, worker_pc, dispatched>>
                   ELSE LET worker_id == Last(workers_available)
                            popped == AfterPop(workers_available)
                            spawned == spawn_worker(workers, worker_pc)
                        IN  /\ workers_available' = popped
                            /\ client_worker_map' =
                                 IF client_key # NoKey
                                 THEN [client_worker_map EXCEPT ![client_key] = worker_id]
                                 ELSE client_worker_map
                            /\ IF SpawnNeeded(popped)
                               THEN /\ workers' = spawned.workers
                                    /\ worker_pc' = spawned.worker_pc
                               ELSE UNCHANGED <<workers, worker_pc>>
                            /\ backend_out' = [backend_out EXCEPT ![worker_id] =
                                 Append(@, [ident |-> c,
                                            request |-> [payload EXCEPT !.worker = worker_id]])]
                            /\ dispatched' = dispatched \cup
                                 {[request_id |-> payload.request_id, ident |-> c,
                                   client_key |-> client_key, named |-> payload.worker,
                                   worker |-> worker_id, popped |-> TRUE]}
                            /\ UNCHANGED <<router_pc, router_exc, run_daemon>>
              ELSE LET worker_id == request_worker_id
                   IN  /\ backend_out' = [backend_out EXCEPT ![worker_id] =
                            Append(@, [ident |-> c,
                                       request |-> [payload EXCEPT !.worker =
                                           IF @ = NoWorker THEN worker_id ELSE @]])]
                       /\ dispatched' = dispatched \cup
                            {[request_id |-> payload.request_id, ident |-> c,
                              client_key |-> client_key, named |-> payload.worker,
                              worker |-> worker_id, popped |-> FALSE]}
                       /\ UNCHANGED <<router_pc, router_exc, run_daemon, workers,
                                      workers_available, client_worker_map, worker_pc>>
    /\ UNCHANGED <<ready_is_json_object, handlerVars, stop_idx, worker_identifiers_map,
                   frontend_out, backend_in, integration, handling, waiting,
                   next_request_id, frontend_log, handled>>

\* ---------------------------------------------------------------- workers
\* Worker.run up to the loop: connect and announce readiness
WorkerRun(w) ==
    /\ worker_pc[w] = "submitted"
    /\ worker_pc' = [worker_pc EXCEPT ![w] = "running"]
    /\ backend_in' = [backend_in EXCEPT ![w] = Append(@, <<RawFrame(LRU_READY)>>)]
    /\ UNCHANGED <<ready_is_json_object, handlerVars, run_daemon, routerVars, frontend_in,
                   frontend_out, backend_out, integration, handling, waiting,
                   next_request_id, historyVars>>

\* mutation: the loop receives while a request is still being handled
WorkerRecvAnyTime(w) == TRUE

\* the loop reaches recv_multipart only after send_multipart of the previous iteration
WorkerCanRecv(w) == handling[w] = {}

\* mutation: the message is read and left on the socket
RecvPeek(pipe) == pipe

\* what socket.recv_multipart leaves queued on the socket
RecvMultipart(pipe) == Tail(pipe)

\* the last frame of a request is not JSON text: json.loads raises
PayloadRaises(request) == "raw" \in DOMAIN request

\* mutation: a bound worker binds again when the url names an integration
BindIntegrationAgain(w, request, bound) ==
    IF request.worker # w THEN bound
    ELSE IF request.scheme \in {"mq", "mqs"} THEN "mq"
    ELSE IF request.scheme = "sb" THEN "sb"
    ELSE bound

\* the integration a worker has after looking at a request
BindIntegration(w, request, bound) ==
    IF request.worker # w \/ bound # NoIntegration THEN bound
    ELSE IF request.scheme \in {"mq", "mqs"} THEN "mq"
    ELSE IF request.scheme = "sb" THEN "sb"
    ELSE bound

\* mutation: only an unbound worker tests the `worker` field of a request
WorkerRejectsUnbound(w, request, bound) ==
    BindIntegration(w, request, bound) = NoIntegration

\* the request failed before it reached the integration
WorkerRejects(w, request, bound) ==
    \/ request.worker # w
    \/ BindIntegration(w, request, bound) = NoIntegration

\* one iteration of the worker loop, up to the parsed request
WorkerRecv(w) ==
    /\ worker_pc[w] = "running"
    /\ ~run_daemon
    /\ WorkerCanRecv(w)
    /\ backend_out[w] # <<>>
    /\ LET request_proto == Head(backend_out[w])
           request == request_proto.request
       IN  /\ backend_out' = [backend_out EXCEPT ![w] = RecvMultipart(@)]
           /\ IF PayloadRaises(request)
              THEN \* jsonloads(request_proto[-1].decode()) is outside the try block
                   /\ worker_pc' = [worker_pc EXCEPT ![w] = "failed"]
                   /\ UNCHANGED <<handling, handled>>
              ELSE /\ handling' = [handling EXCEPT ![w] = @ \cup
                        {[ident |-> request_proto.ident, request |-> request,
                          rejected |-> WorkerRejects(w, request, integration[w]),
                          stage |-> "received"]}]
                   /\ handled' = [handled EXCEPT ![w] =
                        Append(@, [ident |-> request_proto.ident,
                                   request_id |-> request.request_id])]
                   /\ UNCHANGED worker_pc
    /\ UNCHANGED <<ready_is_json_object, handlerVars, run_daemon, routerVars, frontend_in,
                   frontend_out, backend_in, integration, waiting,
                   next_request_id, dispatched, accepted, frontend_log>>

\* the try block of the iteration: self.integration is assigned; from here the
\* worker is inside integration.handle (or holds its own error response)
\* until it sends
WorkerBind(w) ==
    /\ worker_pc[w] = "running"
    /\ \E h \in handling[w] :
        /\ h.stage = "received"
        /\ integration' = [integration EXCEPT ![w] = BindIntegration(w, h.request, @)]
        /\ handling' = [handling EXCEPT ![w] =
                (@ \ {h}) \cup {[h EXCEPT !.stage = "handling"]}]
    /\ UNCHANGED <<ready_is_json_object, handlerVars, run_daemon, routerVars, frontend_in,
                   frontend_out, backend_in, backend_out, worker_pc, waiting,
                   next_request_id, historyVars>>

\* str() of a worker identity or of the `worker` field of a request
WorkerName(x) == IF x = NoWorker THEN "None" ELSE ToString(x)

\* str(e) of the RuntimeError raised in the try block of the iteration
RejectMessage(w, request) ==
    IF request.worker # w
    THEN "got " \o WorkerName(request.worker) \o ", expected " \o WorkerName(w)
    ELSE IF request.scheme = "" THEN "no url found in request context"
    ELSE "integration for " \o request.scheme \o ":// is not implemented"

\* mutation: the error response carries the id of the first request
ErrorResponseFirstId(w, request) ==
    [request_id |-> 1, worker |-> w, response_time |-> 0, success |-> FALSE,
     message |-> RejectMessage(w, request)]

\* the response a worker builds itself when the request fails before the integration
ErrorResponse(w, request) ==
    [request_id |-> request.request_id, worker |-> w, response_time |-> 0,
     success |-> FALSE, message |-> RejectMessage(w, request)]

\* integration.handle(request): the response of the bound handler; what the
\* backend operation does is not part of this model
IntegrationHandle(w, request) ==
    [request_id |-> request.request_id, worker |-> w, success |-> TRUE,
     message |-> "ok"]

\* the response of one iteration of the worker loop
WorkerResponse(w, h) ==
    IF h.rejected THEN ErrorResponse(w, h.request) ELSE IntegrationHandle(w, h.request)

\* the rest of the iteration: the response goes back to the router
WorkerSend(w) ==
    /\ worker_pc[w] = "running"
    /\ \E h \in handling[w] :
        /\ h.stage = "handling"
        /\ backend_in' = [backend_in EXCEPT ![w] =
                Append(@, <<RawFrame(h.ident), JsonFrame(WorkerResponse(w, h))>>)]
        /\ handling' = [handling EXCEPT ![w] = @ \ {h}]
    /\ UNCHANGED <<ready_is_json_object, handlerVars, run_daemon, routerVars, frontend_in,
                   frontend_out, backend_out, worker_pc, integration, waiting,
                   next_request_id, historyVars>>

\* the loop condition fails: close the integration and the socket
WorkerStop(w) ==
    /\ worker_pc[w] = "running"
    /\ run_daemon
    /\ handling[w] = {}
    /\ worker_pc' = [worker_pc EXCEPT ![w] = "stopped"]
    /\ UNCHANGED <<ready_is_json_object, handlerVars, run_daemon, routerVars, frontend_in,
                   frontend_out, backend_in, backend_out, integration, handling,
                   waiting, next_request_id, historyVars>>

\* ---------------------------------------------------------- specification
\* The daemon until a signal arrives: the router ends only by an exception
Next ==
    \/ \E c \in Clients : \E client \in ClientIds \cup {NoClient}, scheme \in Schemes,
          worker \in {NoWorker} \cup WorkerIds : ClientSend(c, client, scheme, worker)
    \/ \E c \in Clients : ClientRecv(c)
    \/ \E w \in WorkerIds : RouterBackend(w)
    \/ \E c \in Clients : RouterFrontend(c)
    \/ \E w \in WorkerIds : WorkerRun(w)
    \/ \E w \in WorkerIds : WorkerRecv(w)
    \/ \E w \in WorkerIds : WorkerBind(w)
    \/ \E w \in WorkerIds : WorkerSend(w)
    \/ \E w \in WorkerIds : WorkerStop(w)

Spec == Init /\ [][Next]_vars

\* ---------------------------------------------------------------- shutdown
\* the signal handler (or the end of the router) sets the event
Shutdown ==
    /\ ~run_daemon
    /\ run_daemon' = TRUE
    /\ UNCHANGED <<ready_is_json_object, handlerVars, routerVars, frontend_in, frontend_out,
                   backend_in, backend_out, worker_pc, integration, handling,
                   waiting, next_request_id, historyVars>>

\* `while not run_daemon.is_set()` ends the loop
RouterLeaveLoop ==
    /\ router_pc = "loop"
    /\ run_daemon
    /\ router_pc' = "stopping"
    /\ stop_idx' = 1
    /\ UNCHANGED <<ready_is_json_object, handlerVars, run_daemon, router_exc, workers,
                   workers_available, client_worker_map, worker_identifiers_map,
                   frontend_in, frontend_out, backend_in, backend_out, worker_pc,
                   integration, handling, waiting, next_request_id, historyVars>>

\* the synthetic response of the shutdown loop
AbortResponse(identity) ==
    [request_id |-> 0, worker |-> identity, success |-> FALSE, message |-> "abort"]

\* one iteration of `for identity, (future, worker) in workers.items()`, up
\* to the call of futures.wait
RouterStopWorker ==
    /\ router_pc = "stopping"
    /\ stop_idx <= Len(workers)
    /\ LET identity == workers[stop_idx]
       IN  IF worker_pc[identity] # "running"
           THEN \* not future.running()
                /\ stop_idx' = stop_idx + 1
                /\ UNCHANGED <<router_pc, frontend_out, frontend_log, worker_pc>>
           ELSE IF integration[identity] # NoIntegration
           THEN /\ LET response_proto ==
                         <<RawFrame(worker_identifiers_map[identity]),
                           JsonFrame(AbortResponse(identity))>>
                   IN  /\ frontend_out' = RouterSend(frontend_out, response_proto)
                       /\ frontend_log' = RouterSend(frontend_log, response_proto)
                \* worker.integration.close(); worker.socket.close()
                /\ worker_pc' = [worker_pc EXCEPT ![identity] = "stopped"]
                /\ stop_idx' = stop_idx + 1
                /\ UNCHANGED router_pc
           ELSE \* futures.wait([future])
                /\ router_pc' = "waiting"
                /\ UNCHANGED <<stop_idx, frontend_out, frontend_log, worker_pc>>
    /\ UNCHANGED <<ready_is_json_object, handlerVars, run_daemon, router_exc, workers,
                   workers_available, client_worker_map, worker_identifiers_map,
                   frontend_in, backend_in, backend_out, integration, handling,
                   waiting, next_request_id, dispatched, accepted, handled>>

\* futures.wait([future]) returns when Worker.run has returned
RouterWaitDone ==
    /\ router_pc = "waiting"
    /\ worker_pc[workers[stop_idx]] = "stopped"
    /\ router_pc' = "stopping"
    /\ stop_idx' = stop_idx + 1
    /\ UNCHANGED <<ready_is_json_object, handlerVars, run_daemon, router_exc, workers,
                   workers_available, client_worker_map, worker_identifiers_map,
                   frontend_in, frontend_out, backend_in, backend_out, worker_pc,
                   integration, handling, waiting, next_request_id, historyVars>>

\* context.destroy(linger=0), then the executor is left
RouterDestroy ==
    /\ router_pc = "stopping"
    /\ stop_idx > Len(workers)
    /\ router_pc' = "stopped"
    /\ UNCHANGED <<ready_is_json_object, handlerVars, run_daemon, router_exc, stop_idx, workers,
                   workers_available, client_worker_map, worker_identifiers_map,
                   frontend_in, frontend_out, backend_in, backend_out, worker_pc,
                   integration, handling, waiting, next_request_id, historyVars>>

\* The daemon with SIGINT/SIGTERM: clients that name a client id and a url
NextShutdown ==
    \/ \E c \in Clients : \E client \in ClientIds, worker \in {NoWorker} \cup WorkerIds :
          ClientSend(c, client, "mq", worker)
    \/ \E c \in Clients : ClientRecv(c)
    \/ \E w \in WorkerIds : RouterBackend(w)
    \/ \E c \in Clients : RouterFrontend(c)
    \/ \E w \in WorkerIds : WorkerRun(w)
    \/ \E w \in WorkerIds : WorkerRecv(w)
    \/ \E w \in WorkerIds : WorkerBind(w)
    \/ \E w \in WorkerIds : WorkerSend(w)
    \/ \E w \in WorkerIds : WorkerStop(w)
    \/ Shutdown
    \/ RouterLeaveLoop
    \/ RouterStopWorker
    \/ RouterWaitDone
    \/ RouterDestroy

SpecShutdown == Init /\ [][NextShutdown]_vars

\* ------------------------------------------------------------ worker alone
\* what may stand in the `worker` field of a message on a worker's socket:
\* nothing, the worker itself, another worker
WorkerFields(w) == {NoWorker, w, w + 1}

\* a payload that json.loads rejects
BadPayload == RawFrame("{")

\* schemes of context.url in the messages put on a worker's socket
WorkerSchemes == Schemes \cup {"mqs", "sb", "http"}

\* the last frame of the messages put on a worker's socket
Payloads(w, request_id) ==
    {[request_id |-> request_id, client |-> "a", scheme |-> scheme, worker |-> worker] :
        scheme \in WorkerSchemes, worker \in WorkerFields(w)} \cup {BadPayload}

\* a message [identity, b'', payload] arrives on the REQ socket of worker w
WorkerDeliver(w, payload) ==
    /\ worker_pc[w] # "none"
    /\ next_request_id <= MaxRequests
    /\ payload \in Payloads(w, next_request_id)
    /\ backend_out' = [backend_out EXCEPT ![w] =
            Append(@, [ident |-> "c1", request |-> payload])]
    /\ next_request_id' = next_request_id + 1
    /\ UNCHANGED <<ready_is_json_object, handlerVars, run_daemon, routerVars, frontend_in,
                   frontend_out, backend_in, worker_pc, integration, handling,
                   waiting, historyVars>>

\* Worker.run of the first worker against any traffic on its socket
NextWorker ==
    \/ \E payload \in Payloads(1, next_request_id) : WorkerDeliver(1, payload)
    \/ WorkerRun(1)
    \/ WorkerRecv(1)
    \/ WorkerBind(1)
    \/ WorkerSend(1)
    \/ WorkerStop(1)
    \/ Shutdown

SpecWorker == Init /\ [][NextWorker]_vars

\* ------------------------------------------------------- the MQ integration
MaxQueue == 1

Variants == {"native", "http"}
\* the `worker` an instance is constructed with
HandlerWorker == 1

\* the requests of a client that connects and uses one queue
Requests ==
    [action : Actions \ {"TEST"}, context : Contexts \cup {NoContext},
     payload : {None, "x"}, endpoint : {PlainEndpoint}, message_wait : {Unset}]
\* what the backend does with a connection attempt
Outcomes == {"ok", "refused"}

\* the @register decorators of the class body, in the order Python evaluates them
Decorators(v) ==
    IF v = "native"
    THEN <<[func |-> "connect", actions |-> <<"CONN">>],
           [func |-> "put", actions |-> <<"PUT", "SEND">>],
           [func |-> "get", actions |-> <<"GET", "RECEIVE">>]>>
    ELSE <<[func |-> "disconnect", actions |-> <<"DISC">>],
           [func |-> "connect", actions |-> <<"CONN">>],
           [func |-> "put", actions |-> <<"PUT", "SEND">>],
           [func |-> "get", actions |-> <<"GET", "RECEIVE">>]>>

\* mutation: a later registration replaces the earlier one
RegisterLast(h, actions, func) ==
    [a \in Actions |-> IF \E i \in DOMAIN actions : actions[i] = a THEN func ELSE h[a]]

\* register(handlers, *actions)(func): an action that has no entry gets func
register(h, actions, func) ==
    [a \in Actions |->
        IF h[a] = NoHandler /\ \E i \in DOMAIN actions : actions[i] = a
        THEN func ELSE h[a]]

\* mutation: an action without entry is given the handler of CONN
GetHandlerFallback(h, action) == IF h[action] = NoHandler THEN h["CONN"] ELSE h[action]

\* handlers.get(action, None)
get_handler(h, action) == h[action]

Keys(h) == {a \in Actions : h[a] # NoHandler}

\* the code points of the payloads of the model: "x", and "u00e9" for the
\* one-character string with code point 233
CodePoints(payload) ==
    IF payload = "x" THEN <<120>> ELSE IF payload = "u00e9" THEN <<233>> ELSE <<>>

\* len(payload) of a str
StrLen(payload) == Len(CodePoints(payload))

\* the number of bytes of one code point in UTF-8
Utf8Width(cp) == IF cp < 128 THEN 1 ELSE IF cp < 2048 THEN 2 ELSE 3

RECURSIVE SumWidths(_)
SumWidths(cps) == IF cps = <<>> THEN 0 ELSE Utf8Width(Head(cps)) + SumWidths(Tail(cps))

\* len(payload.encode())
EncodedLen(payload) == SumWidths(CodePoints(payload))

\* what a handler method does: the instance and the queue it leaves, either
\* the dict it returns (exc = None) or the exception it raises, whether it
\* reached the backend, how many seconds it waited there for a message, and
\* the position on the queue of the message it took (0 when it took none)
Returns(st, q, message, payload) ==
    [handler |-> st, queue |-> q, exc |-> None, text |-> message,
     payload |-> payload, response_length |-> StrLen(payload),
     backend |-> FALSE, waited |-> 0, taken |-> 0]
Raises(st, q, exc, text) ==
    [handler |-> st, queue |-> q, exc |-> exc, text |-> text,
     payload |-> None, response_length |-> 0, backend |-> FALSE, waited |-> 0,
     taken |-> 0]
\* the same outcome, reached through an operation on the backend
AtBackend(r, waited) == [r EXCEPT !.backend = TRUE, !.waited = waited]
\* the same outcome, the message at the position having been taken
Taking(r, position) == [r EXCEPT !.taken = position]

\* context.get('message_wait', None) or 0
MessageWait(context) == context.message_wait

\* mq.py, connect
native_connect(st, q, request, outcome) ==
    IF st.link # None THEN Raises(st, q, "AsyncMessageError", "already connected")
    ELSE IF request.context = NoContext
    THEN Raises(st, q, "AsyncMessageError", "no context in request")
    ELSE IF request.context.key_file # None
    THEN \* self.qmgr = pymqi.QueueManager(None), then connect_with_options
         IF outcome = "ok"
         THEN Returns([link |-> "connected", url |-> request.context.queue_manager,
                       message_wait |-> MessageWait(request.context)], q,
                      "connected", None)
         ELSE Raises([st EXCEPT !.link = "unconnected"], q, "MQMIError", "connect failed")
    ELSE \* self.qmgr = pymqi.connect(...)
         IF outcome = "ok"
         THEN Returns([link |-> "connected", url |-> request.context.queue_manager,
                       message_wait |-> MessageWait(request.context)], q,
                      "connected", None)
         ELSE Raises(st, q, "MQMIError", "connect failed")

\* mq/__init__.py, connect
http_connect(st, q, request) ==
    IF request.context = NoContext
    THEN Raises(st, q, "AsyncMessageError", "no context in request")
    ELSE LET named == [st EXCEPT !.url = request.context.queue_manager]
         IN  IF st.link # None THEN Returns(named, q, "re-used connection", None)
             ELSE Returns([named EXCEPT !.link = "connected",
                                        !.message_wait = MessageWait(request.context)],
                          q, "connected", None)

\* mq/__init__.py, close and disconnect
http_disconnect(st, q) ==
    Returns([st EXCEPT !.link = None], q, "disconnected", None)

\* the message ids on the queue
IdsOn(q) == {q[i].id : i \in DOMAIN q}

\* the MsgId the queue manager gives a new message: one that no message on
\* the queue and no consumer holds
FreshId(q, held) ==
    CHOOSE n \in 1..(Len(q) + Cardinality(held) + 1) :
        /\ n \notin IdsOn(q) \cup held
        /\ \A m \in 1..(n - 1) : m \in IdsOn(q) \cup held

\* the only queue of the backend
QueueName == "q"

\* the keys an endpoint may have
SupportedArguments == <<"queue", "expression", "max_message_size">>

RECURSIVE Join(_)
\* ", ".join(keys)
Join(keys) ==
    IF keys = <<>> THEN ""
    ELSE IF Len(keys) = 1 THEN keys[1]
    ELSE keys[1] \o ", " \o Join(Tail(keys))

\* the value an endpoint gives a key, None without the key
ValueOf(endpoint, key) ==
    IF \E i \in DOMAIN endpoint : endpoint[i].key = key
    THEN endpoint[CHOOSE i \in DOMAIN endpoint : endpoint[i].key = key].value
    ELSE None

Parsed(queue_name, expression) ==
    [exc |-> None, text |-> None, queue_name |-> queue_name, expression |-> expression]
ParseFails(exc, text) ==
    [exc |-> exc, text |-> text, queue_name |-> None, expression |-> None]

\* mq.py: strip a leading 'queue:', split at ',' into queue name and
\* expression part
native_parse(endpoint) ==
    LET first == IF endpoint[1].key = "queue" THEN endpoint[1].value
                 ELSE endpoint[1].key \o ":" \o endpoint[1].value
    IN  IF Len(endpoint) = 1 THEN Parsed(first, None)
        ELSE IF Len(endpoint) > 2
        THEN \* queue_name, expression = [... for x in queue_name.split(',')]
             ParseFails("ValueError", "too many values to unpack (expected 2)")
        ELSE IF endpoint[2].key # "expression"
        THEN \* the f-string of the error message reads request.endpoint of a dict
             ParseFails("AttributeError", "'dict' object has no attribute 'endpoint'")
        ELSE Parsed(first, endpoint[2].value)

\* get_unsupported_arguments(['queue', 'expression', 'max_message_size'], arguments)
get_unsupported_arguments(endpoint) ==
    SelectSeq([i \in DOMAIN endpoint |-> endpoint[i].key],
              LAMBDA k : \A j \in DOMAIN SupportedArguments : SupportedArguments[j] # k)

\* mq/__init__.py: parse_arguments and get_unsupported_arguments
http_parse(endpoint) ==
    IF get_unsupported_arguments(endpoint) # <<>>
    THEN ParseFails("AsyncMessageError",
                    "arguments " \o Join(get_unsupported_arguments(endpoint))
                        \o " is not supported")
    ELSE Parsed(ValueOf(endpoint, "queue"), ValueOf(endpoint, "expression"))

\* request.get('context', {}).get('message_wait', None) or self.message_wait
EffectiveWait(st, request) ==
    IF request.message_wait \in {Unset, 0} THEN st.message_wait ELSE request.message_wait

\* the expression selects values from the content of the message
Matches(body, expression) == body = expression

\* _find_message: the MsgId of the first message, in browse order, that the
\* expression selects; 0 when a pass finds none
FindMessage(q, expression) ==
    IF \E i \in DOMAIN q : Matches(q[i].body, expression)
    THEN q[CHOOSE i \in DOMAIN q :
                /\ Matches(q[i].body, expression)
                /\ \A j \in 1..(i - 1) : ~Matches(q[j].body, expression)].id
    ELSE 0

\* mutation: the destructive get takes the first message whatever its id
WithoutFirst(q, id) == Tail(q)

\* the queue after queue.get with MQMO_MATCH_MSG_ID
WithoutId(q, id) == SelectSeq(q, LAMBDA m : m.id # id)

\* the position on the queue of the message with the id
PositionOf(q, id) == CHOOSE i \in DOMAIN q : q[i].id = id

\* the body of the message with the id
BodyOf(q, id) == q[CHOOSE i \in DOMAIN q : q[i].id = id].body

\* the part of mq.py's _request after the endpoint is parsed
native_operation(st, q, request, p) ==
    IF st.link = "unconnected" \/ p.queue_name # QueueName
    THEN \* pymqi.Queue fails: the queue manager object never connected, or the
         \* queue manager knows no queue of that name
         AtBackend(Raises(st, q, "MQMIError", "MQOPEN failed"), 0)
    ELSE IF request.action = "PUT"
    THEN AtBackend(Returns(st, Append(q, [id |-> FreshId(q, {}), body |-> request.payload]),
                           None, request.payload), 0)
    ELSE IF request.action = "GET"
    THEN IF p.expression # None
         THEN IF FindMessage(q, p.expression) = 0
              THEN AtBackend(Raises(st, q, "AsyncMessageError",
                        "AsyncMessageQueueHandler: timeout while waiting for matching message"),
                        EffectiveWait(st, request))
              ELSE Taking(AtBackend(Returns(st, WithoutId(q, FindMessage(q, p.expression)),
                                            None, BodyOf(q, FindMessage(q, p.expression))), 0),
                          PositionOf(q, FindMessage(q, p.expression)))
         ELSE IF q = <<>>
              THEN AtBackend(Raises(st, q, "MQMIError", "no message"),
                             EffectiveWait(st, request))
              ELSE Taking(AtBackend(Returns(st, Tail(q), None, Head(q).body), 0), 1)
    ELSE \* neither branch assigns payload and response_length
         AtBackend(Raises(st, q, "UnboundLocalError", "payload"), 0)

\* the part of mq/__init__.py's _request after the endpoint is parsed
http_operation(st, q, request, p) ==
    IF request.action # "GET" /\ p.expression # None
    THEN Raises(st, q, "AsyncMessageError",
                "argument expression is not allowed for action " \o request.action)
    ELSE IF request.action \notin {"PUT", "GET"}
    THEN \* neither branch assigns response_length
         Raises(st, q, "UnboundLocalError", "response_length")
    ELSE IF p.queue_name # QueueName
    THEN AtBackend(Raises(st, q, "AsyncMessageError", "status code 404"), 0)
    ELSE IF request.action = "PUT"
    THEN AtBackend(Returns(st, Append(q, [id |-> FreshId(q, {}), body |-> request.payload]),
                           None, request.payload), 0)
    ELSE IF q = <<>>
    THEN AtBackend(Raises(st, q, "AsyncMessageError", "no message"),
                   EffectiveWait(st, request))
    ELSE \* response_length = len((payload or '').encode())
         Taking(AtBackend([Returns(st, Tail(q), None, Head(q).body)
                               EXCEPT !.response_length = EncodedLen(Head(q).body)], 0), 1)

\* _request of either module
do_request(v, st, q, request) ==
    IF st.link = None THEN Raises(st, q, "AsyncMessageError", "not connected")
    ELSE IF request.endpoint = NoEndpoint
    THEN Raises(st, q, "AsyncMessageError", "no endpoint specified")
    ELSE LET p == IF v = "native" THEN native_parse(request.endpoint)
                  ELSE http_parse(request.endpoint)
         IN  IF p.exc # None THEN Raises(st, q, p.exc, p.text)
             ELSE IF v = "native" THEN native_operation(st, q, request, p)
             ELSE http_operation(st, q, request, p)

\* mutation: the method leaves request['action'] as the client wrote it
PutAsSent(v, st, q, request) ==
    IF request.payload = None THEN Raises(st, q, "AsyncMessageError", "no payload")
    ELSE do_request(v, st, q, request)

\* put of either module
put(v, st, q, request) ==
    IF request.payload = None THEN Raises(st, q, "AsyncMessageError", "no payload")
    ELSE do_request(v, st, q, [request EXCEPT !.action = "PUT"])

\* mutation: get passes a request with a payload on to _request
GetAnyPayload(v, st, q, request) ==
    do_request(v, st, q, [request EXCEPT !.action = "GET"])

\* get of either module
get(v, st, q, request) ==
    IF request.payload # None THEN Raises(st, q, "AsyncMessageError", "payload not allowed")
    ELSE do_request(v, st, q, [request EXCEPT !.action = "GET"])

\* request_handler(self, request) for a registered function
Call(func, v, st, q, request, outcome) ==
    IF func = "connect"
    THEN IF v = "native" THEN native_connect(st, q, request, outcome)
         ELSE http_connect(st, q, request)
    ELSE IF func = "disconnect" THEN http_disconnect(st, q)
    ELSE IF func = "put" THEN put(v, st, q, request)
    ELSE IF func = "get" THEN get(v, st, q, request)
    ELSE \* handler_a, handler_b of the tests: `pass`
         Returns(st, q, None, None)

\* f'{action}: {e.__class__.__name__}="{e}"'
ErrorMessage(action, exc, text) == action \o ": " \o exc \o "=\"" \o text \o "\""

\* str(AsyncMessageError(f'no implementation for {action}'))
NoImplementation(action) == "no implementation for " \o action

\* AsyncMessageHandler.handle: look the handler up, call it, and wrap what it
\* returns or raises into the response
handle(v, h, st, q, request, outcome) ==
    LET func == get_handler(h, request.action)
        r == IF func = NoHandler
             THEN Raises(st, q, "AsyncMessageError", NoImplementation(request.action))
             ELSE Call(func, v, st, q, request, outcome)
    IN  [handler |-> r.handler, queue |-> r.queue,
         effect |-> [backend |-> r.backend, waited |-> r.waited, taken |-> r.taken],
         response |->
            [success |-> r.exc = None,
             worker |-> HandlerWorker,
             message |-> IF r.exc # None
                         THEN ErrorMessage(request.action, r.exc, r.text)
                         ELSE r.text,
             payload |-> r.payload,
             response_length |-> r.response_length,
             response_time |-> 1]]

\* the import of the module evaluates the next decorator of the class body
ModuleLoad ==
    /\ load_pc < Len(Decorators(variant))
    /\ LET d == Decorators(variant)[load_pc + 1]
       IN  handlers' = register(handlers, d.actions, d.func)
    /\ load_pc' = load_pc + 1
    /\ UNCHANGED <<variant, handler, queue, response, effect, call>>

\* register(handlers, action)(func) called on the loaded module, as the tests do
Register(action, func) ==
    /\ load_pc = Len(Decorators(variant))
    /\ handlers' = register(handlers, <<action>>, func)
    /\ UNCHANGED <<variant, load_pc, handler, queue, response, effect, call>>

\* one call of handle on the instance
Handle(request, outcome) ==
    /\ load_pc = Len(Decorators(variant))
    /\ Len(queue) <= MaxQueue
    /\ LET r == handle(variant, handlers, handler, queue, request, outcome)
       IN  /\ Len(r.queue) <= MaxQueue
           /\ handler' = r.handler
           /\ queue' = r.queue
           /\ response' = r.response
           /\ effect' = r.effect
    /\ UNCHANGED <<variant, handlers, load_pc, call>>

daemonVars == <<ready_is_json_object, run_daemon, routerVars, frontend_in,
                frontend_out, backend_in, backend_out, worker_pc, integration,
                handling, waiting, next_request_id, historyVars>>

\* either variant of the module: import, registrations, requests
InitIntegration ==
    /\ InitDaemon
    /\ InitHandler
    /\ variant \in Variants

NextIntegration ==
    \/ ModuleLoad /\ UNCHANGED <<daemonVars, unitVars>>
    \/ \E action \in {"TEST", "CONN"}, func \in {"handler_a", "handler_b"} :
          Register(action, func) /\ UNCHANGED <<daemonVars, unitVars>>
    \/ \E request \in Requests, outcome \in Outcomes :
          Handle(request, outcome) /\ UNCHANGED <<daemonVars, unitVars>>

SpecIntegration == InitIntegration /\ [][NextIntegration]_vars

\* ------------------------------------------------- requests on one queue

MaxMessages == 2

ExprEndpoint == <<Part("queue", "q"), Part("expression", "x")>>

\* endpoints: the supported keys in several combinations and orders, and
\* endpoints with a key of no meaning
Endpoints ==
    {PlainEndpoint,
     ExprEndpoint,
     <<Part("queue", "q"), Part("max_message_size", "1")>>,
     <<Part("queue", "q"), Part("expression", "x"), Part("max_message_size", "1")>>,
     <<Part("expression", "x"), Part("queue", "q")>>,
     <<Part("queue", "q"), Part("other", "v")>>,
     <<Part("other", "v")>>}

ConnRequests ==
    [action : {"CONN"},
     context : [queue_manager : {"qm1"}, key_file : {None}, message_wait : {0, 5}],
     payload : {None}, endpoint : {NoEndpoint}, message_wait : {Unset}]

\* PUT of a payload with every endpoint; PUT and its alias with every payload
PutRequests ==
    [action : {"PUT"}, context : {NoContext}, payload : {"x"},
     endpoint : Endpoints, message_wait : {Unset}]
    \cup [action : {"PUT", "SEND"}, context : {NoContext}, payload : {None, "x", "u00e9"},
          endpoint : {PlainEndpoint}, message_wait : {Unset}]

\* GET with every endpoint; GET with a message_wait of its own, with and
\* without expression; GET and its alias with and without a payload
GetRequests ==
    [action : {"GET"}, context : {NoContext}, payload : {None},
     endpoint : Endpoints, message_wait : {Unset}]
    \cup [action : {"GET"}, context : {NoContext}, payload : {None},
          endpoint : {PlainEndpoint, ExprEndpoint}, message_wait : {0}]
    \cup [action : {"GET", "RECEIVE"}, context : {NoContext}, payload : {None, "x"},
          endpoint : {PlainEndpoint}, message_wait : {Unset}]

\* one call of handle with a request on the queue
QueueHandle(request) ==
    /\ load_pc = Len(Decorators(variant))
    /\ LET r == handle(variant, handlers, handler, queue, request, "ok")
       IN  /\ Len(r.queue) <= MaxMessages
           /\ handler' = r.handler
           /\ queue' = r.queue
           /\ response' = r.response
           /\ effect' = r.effect
    /\ call' = request
    /\ UNCHANGED <<variant, handlers, load_pc>>

NextQueue ==
    \/ ModuleLoad /\ UNCHANGED <<daemonVars, unitVars>>
    \/ \E request \in ConnRequests \cup PutRequests \cup GetRequests :
          QueueHandle(request) /\ UNCHANGED <<daemonVars, unitVars>>

SpecQueue == InitIntegration /\ [][NextQueue]_vars

\* -------------------------------------------------------------- properties

\* C1: an entry of client_worker_map, once recorded, is never changed or
\* removed, and every request the router forwarded that computed a recorded
\* client key and carried no `worker` field went to the worker of that entry.
C1_AffinityIsStable ==
    /\ [][\A k \in ClientKeys :
            client_worker_map[k] # NoWorker => client_worker_map'[k] = client_worker_map[k]]_vars
    /\ [](\A d \in dispatched :
            (d.named = NoWorker /\ d.client_key # NoKey)
                => client_worker_map[d.client_key] = d.worker)

\* a later request with the same key and no `worker` field reached the recorded worker
C1_Witness ==
    \E d1, d2 \in dispatched :
        /\ d1.popped /\ d1.client_key # NoKey
        /\ d2.request_id > d1.request_id
        /\ d2.client_key = d1.client_key /\ d2.named = NoWorker
        /\ d2.worker = d1.worker
        /\ client_worker_map[d1.client_key] = d1.worker

\* C2: every request the router read from the frontend gets exactly one
\* response on the frontend, addressed to the client that sent it: never more
\* responses than requests, and none missing once the router has stopped
\* (stated for the runs in which the router loop raised no exception).
C2_ExactlyOneResponse ==
    router_exc = "none" =>
        \A c \in Clients :
            /\ Len(frontend_log[c]) <= accepted[c]
            /\ router_pc = "stopped" => Len(frontend_log[c]) = accepted[c]

\* C3: all requests the router forwards to one worker belong to one client
\* key, whether the worker was chosen by the router or named in the request.
C3_OneKeyPerWorker ==
    \A d1, d2 \in dispatched :
        (d1.worker = d2.worker /\ d1.client_key # NoKey /\ d2.client_key # NoKey)
            => d1.client_key = d2.client_key

\* C4: a later request of a client that carries neither a `worker` field nor a
\* url is routed to the worker assigned on that client's first request, and no
\* worker is taken from the pool for it.
C4_SchemeOfFirstRequest ==
    \A d1, d2 \in dispatched :
        (/\ d1.client_key # NoKey /\ d1.popped
         /\ \A d \in dispatched :
                d.client_key[1] = d1.client_key[1] => d.request_id >= d1.request_id
         /\ d2.request_id > d1.request_id
         /\ d2.client_key = <<d1.client_key[1], "">>
         /\ d2.named = NoWorker)
            => (d2.worker = d1.worker /\ ~d2.popped)

\* workers whose READY message the router has processed
ReadySeen == {w \in WorkerIds : worker_identifiers_map[w] # NoIdentity}

\* workers that have executed the send of READY
ReadyEmitted == {w \in WorkerIds : worker_pc[w] \in {"running", "stopped"}}

Occurrences(seq, x) == Cardinality({i \in DOMAIN seq : seq[i] = x})
KeysOf(w) == {k \in ClientKeys : client_worker_map[k] = w}
PopsOf(w) == {d \in dispatched : d.popped /\ d.worker = w}
InFlight(w) == backend_out[w] # <<>> \/ handling[w] # {}

\* C5 as stated: every worker that has emitted READY is exactly once in
\* workers_available or is paired with exactly one client key, and no
\* available worker has a request in flight.
C5_ReadyWorkerPlaced ==
    /\ \A w \in ReadyEmitted :
        (Occurrences(workers_available, w) = 1) # (Cardinality(KeysOf(w)) = 1)
    /\ \A i \in DOMAIN workers_available : ~InFlight(workers_available[i])

\* C5 amended: every worker whose READY the router has processed is either
\* once in workers_available and paired with no key, or was taken from it by
\* exactly one request and is paired with that request's client key (with no
\* key when that request named no client); no available worker has a request
\* in flight.
C5_ProcessedWorkerPlaced ==
    /\ \A w \in ReadySeen :
        \/ /\ Occurrences(workers_available, w) = 1
           /\ KeysOf(w) = {}
           /\ PopsOf(w) = {}
        \/ /\ Occurrences(workers_available, w) = 0
           /\ Cardinality(PopsOf(w)) = 1
           /\ \A d \in PopsOf(w) :
                KeysOf(w) = IF d.client_key # NoKey THEN {d.client_key} ELSE {}
    /\ \A i \in DOMAIN workers_available : ~InFlight(workers_available[i])

\* both conditions occur: an assigned worker with its key and an idle spare
C5_Witness ==
    \E w1, w2 \in ReadySeen :
        /\ Occurrences(workers_available, w1) = 1
        /\ Cardinality(KeysOf(w2)) = 1
        /\ InFlight(w2)

\* C6: a request for a client key without a worker that arrives while
\* workers_available is empty is still served: it is forwarded or keeps
\* waiting, nothing is popped from an empty pool and the loop goes on.
C6_EmptyPoolIsServed ==
    /\ router_exc # "IndexError"
    /\ \A c \in Clients :
        accepted[c] = Cardinality({d \in dispatched : d.ident = c})

\* C7: a READY message appends the worker to workers_available, sends nothing
\* to the frontend and leaves the loop running; any other backend message is
\* forwarded to the frontend unchanged and leaves workers_available alone.
C7_BackendMessage ==
    [][\A w \in WorkerIds :
        (backend_in[w] # <<>> /\ backend_in'[w] = Tail(backend_in[w])) =>
            LET reply == Head(backend_in[w])
            IN  IF reply[1].raw = LRU_READY
                THEN /\ workers_available' = Append(workers_available, w)
                     /\ frontend_out' = frontend_out
                     /\ router_pc' = "loop"
                ELSE /\ frontend_out' = [frontend_out EXCEPT ![reply[1].raw] =
                                            Append(@, reply[2].json)]
                     /\ workers_available' = workers_available]_vars

\* C8: spawned workers = assigned workers + 1; workers_available never holds
\* more than one worker; no worker is taken (and none spawned) for a request
\* that names a worker or whose client key already has one.
C8_OneAhead ==
    /\ Len(workers) = Cardinality({d \in dispatched : d.popped}) + 1
    /\ Len(workers_available) <= 1
    /\ \A d \in dispatched : d.popped => d.named = NoWorker
    /\ \A d1, d2 \in dispatched :
        (d1.popped /\ d2.popped /\ d1.client_key = d2.client_key /\ d1 # d2)
            => d1.client_key = NoKey

\* two assignments have each emptied the pool and spawned the next worker
C8_Witness ==
    /\ Cardinality({d \in dispatched : d.popped}) = 2
    /\ Len(workers) = 3
    /\ Len(workers_available) = 1

StrictlyIncreasing(ids) == \A i, j \in DOMAIN ids : i < j => ids[i] < ids[j]
IdsOf(seq) == [i \in DOMAIN seq |-> seq[i].request_id]
Select(seq, c) == SelectSeq(seq, LAMBDA h : h.ident = c)

C10_SerialWorker ==
    /\ [](\A w \in WorkerIds : Cardinality(handling[w]) <= 1)
    /\ [][\A w \in WorkerIds :
            (backend_out[w] # <<>> /\ backend_out'[w] = Tail(backend_out[w]))
                => handling[w] = {}]_vars

\* a second request waits on the socket of a worker that is handling one
C10_Witness ==
    \E w \in WorkerIds : backend_out[w] # <<>> /\ Cardinality(handling[w]) = 1

\* the shutdown loop is at the entry of worker w and takes it
StopIterationOf(w) ==
    /\ router_pc = "stopping"
    /\ stop_idx <= Len(workers)
    /\ workers[stop_idx] = w
    /\ stop_idx' = stop_idx + 1

\* C11: in the shutdown loop, for a worker that is running with a bound
\* integration, the router sends one abort response on the frontend to the
\* client whose request that worker has in hand, the first request the
\* worker ever got included.
C11_AbortToServedClient ==
    [][\A w \in WorkerIds :
        (/\ StopIterationOf(w)
         /\ worker_pc[w] = "running"
         /\ integration[w] # NoIntegration)
            => \A h \in handling[w] :
                 frontend_log'[h.ident] =
                    Append(frontend_log[h.ident], AbortResponse(w))]_vars

\* the worker has called integration.handle and the call has not returned
InHandlerCall(w) ==
    \E h \in handling[w] : h.stage = "handling" /\ ~h.rejected

\* C12: once the event is set the router goes through its shutdown sequence
\* without waiting for a worker to finish: it is never in futures.wait on a
\* worker that is inside a handler call, whose return nothing guarantees.
C12_NoWaitOnHandlerCall ==
    router_pc = "waiting" => ~InHandlerCall(workers[stop_idx])

\* C13: no message on its socket ends a worker's loop: the worker leaves the
\* loop only when the event is set, and a request it cannot serve (wrong or
\* missing worker, no or unsupported url, unparsable payload) is answered
\* with success = false.
C13_WorkerSurvivesRequests ==
    [][\A w \in WorkerIds :
        /\ (worker_pc[w] = "running" /\ worker_pc'[w] # "running") => run_daemon
        /\ (backend_out[w] # <<>> /\ backend_out'[w] = Tail(backend_out[w])) =>
              \E h \in handling'[w] : h.request = Head(backend_out[w]).request]_vars

Loaded == load_pc = Len(Decorators(variant))

\* C14: for an action without a registered handler, handle returns
\* success = false, the instance's worker id, a response time and the message
\* '<action>: AsyncMessageError="no implementation for <action>"'; it leaves
\* the instance and the queue as they were, so that any request that follows
\* is handled as it would have been without it.
C14_NoImplementation ==
    Loaded =>
        \A request \in Requests, outcome \in Outcomes :
            request.action \notin Keys(handlers) =>
                LET r == handle(variant, handlers, handler, queue, request, outcome)
                IN  /\ r.response.success = FALSE
                    /\ r.response.worker = HandlerWorker
                    /\ r.response.response_time > 0
                    /\ r.response.message =
                         request.action \o ": AsyncMessageError=\"no implementation for "
                            \o request.action \o "\""
                    /\ r.handler = handler
                    /\ r.queue = queue

\* handle has answered a DISC on a connected instance of the module that
\* registers none, and the instance is still connected with its message queued
C14_Witness ==
    /\ variant = "native"
    /\ handler.link = "connected"
    /\ Len(queue) = 1 /\ queue[1].body = "x"
    /\ ~response.success
    /\ response.message = "DISC: AsyncMessageError=\"no implementation for DISC\""

\* C15: when the import of the MQ handler module has finished, its registry
\* holds the keys CONN, PUT, SEND, GET and RECEIVE and no other key.
C15_RegistryKeys ==
    [][(load_pc' # load_pc /\ load_pc' = Len(Decorators(variant)))
        => Keys(handlers') = {"CONN", "PUT", "SEND", "GET", "RECEIVE"}]_vars

\* functions a register call may name
Funcs == {"connect", "disconnect", "put", "get", "handler_a", "handler_b"}

\* C16: registering a handler for an action that has an entry leaves the
\* registry as it is: no entry of the registry ever changes once made, and a
\* register call changes the entry of its action only, and only if there was
\* none.
C16_FirstRegistrationWins ==
    /\ [][\A a \in Actions :
            handlers[a] # NoHandler => handlers'[a] = handlers[a]]_vars
    /\ [](\A a \in Actions, func \in Funcs :
            LET after == register(handlers, <<a>>, func)
            IN  /\ after[a] = IF a \in Keys(handlers) THEN handlers[a] ELSE func
                /\ \A b \in Actions \ {a} : after[b] = handlers[b])

\* TEST has been registered with handler_b, CONN is still the module's
\* connect, and registering handler_a for either changes nothing
C16_Witness ==
    /\ Loaded
    /\ handlers["TEST"] = "handler_b"
    /\ handlers["CONN"] = "connect"
    /\ register(handlers, <<"TEST">>, "handler_a") = handlers
    /\ register(handlers, <<"CONN">>, "handler_a") = handlers

\* the second key each of the two methods is registered under
Alias(action) == IF action = "PUT" THEN "SEND" ELSE "RECEIVE"

RequestsOf(action) == {request \in Requests : request.action = action}

\* C18: a DISC succeeds and leaves the instance disconnected, whether it was
\* connected or not; on a disconnected instance it changes nothing; and a
\* CONN that follows it and that the backend accepts connects again.
C18_Disconnect ==
    Loaded =>
        \A request \in RequestsOf("DISC") :
            LET r == handle(variant, handlers, handler, queue, request, "ok")
            IN  /\ r.response.success
                /\ r.handler.link = None
                /\ handler.link = None => r.handler = handler
                /\ \A conn \in RequestsOf("CONN") :
                        conn.context # NoContext =>
                            LET c == handle(variant, handlers, r.handler, r.queue,
                                            conn, "ok")
                            IN  c.response.success /\ c.handler.link = "connected"

\* C19: a CONN on a connected instance has one outcome per module, failure
\* "already connected" for mq.py and success "re-used connection" for
\* mq/__init__.py, and leaves the connection, its target and message_wait as
\* they were, whatever context the request carries.
C19_RepeatedConn ==
    (Loaded /\ handler.link = "connected") =>
        \A request \in RequestsOf("CONN"), outcome \in Outcomes :
            LET r == handle(variant, handlers, handler, queue, request, outcome)
            IN  /\ r.handler = handler
                /\ IF variant = "native"
                   THEN /\ ~r.response.success
                        /\ r.response.message
                             = "CONN: AsyncMessageError=\"already connected\""
                   ELSE /\ r.response.success
                        /\ r.response.message = "re-used connection"

\* C20: a CONN of the pymqi module that the backend refuses, with or without
\* key_file, is answered with success = false and leaves the instance
\* disconnected, and a CONN that follows attempts the connection again: when
\* the backend accepts it, the instance is connected.
C20_FailedConnRetries ==
    (Loaded /\ variant = "native" /\ handler.link = None) =>
        \A request \in RequestsOf("CONN") :
            request.context # NoContext =>
                LET r == handle(variant, handlers, handler, queue, request, "refused")
                    again == handle(variant, handlers, r.handler, r.queue, request, "ok")
                IN  /\ ~r.response.success
                    /\ r.handler.link = None
                    /\ again.response.success
                    /\ again.handler.link = "connected"

\* a step of the handler that is a call of handle on the loaded module; the
\* request of the call is call'
Called == load_pc' = load_pc /\ call'.action # None

\* C21: a PUT or SEND without payload is answered "no payload" and a GET or
\* RECEIVE with a payload is answered "payload not allowed"; the call reaches
\* no backend and leaves the queue as it was.
C21_PayloadChecks ==
    [][Called =>
        /\ (call'.action \in {"PUT", "SEND"} /\ call'.payload = None) =>
              /\ ~response'.success
              /\ response'.message
                    = ErrorMessage(call'.action, "AsyncMessageError", "no payload")
              /\ ~effect'.backend
              /\ queue' = queue
        /\ (call'.action \in {"GET", "RECEIVE"} /\ call'.payload # None) =>
              /\ ~response'.success
              /\ response'.message
                    = ErrorMessage(call'.action, "AsyncMessageError", "payload not allowed")
              /\ ~effect'.backend
              /\ queue' = queue]_vars

\* a connected instance with a message on the queue refused a GET that
\* carried a payload
C21_Witness ==
    /\ handler.link = "connected"
    /\ call.action = "GET" /\ call.payload = "x" /\ call.endpoint = PlainEndpoint
    /\ queue # <<>>
    /\ response.message = "GET: AsyncMessageError=\"payload not allowed\""

\* the keys of the endpoint that are none of queue, expression, max_message_size
Unsupported(endpoint) == get_unsupported_arguments(endpoint)

\* a call of GET or RECEIVE, on a connected instance, that its payload check
\* lets through to _request
GetCalled ==
    /\ Called
    /\ handler.link = "connected"
    /\ call'.action \in {"GET", "RECEIVE"} /\ call'.payload = None
    /\ call'.endpoint # NoEndpoint

\* C22: an endpoint made of the keys queue, expression and max_message_size,
\* in any combination, is accepted and the request goes to the backend; an
\* endpoint with any other key fails the request before any backend
\* operation.
C22_EndpointKeys ==
    [][GetCalled =>
        IF Unsupported(call'.endpoint) = <<>>
        THEN effect'.backend
        ELSE ~response'.success /\ ~effect'.backend]_vars

\* the endpoint has an expression part
HasExpression(endpoint) == \E i \in DOMAIN endpoint : endpoint[i].key = "expression"

\* C23: a PUT or SEND whose endpoint has an expression is answered with
\* success = false and puts nothing on the queue.
C23_NoExpressionOnPut ==
    [][(/\ Called
        /\ handler.link = "connected"
        /\ call'.action \in {"PUT", "SEND"} /\ call'.payload # None
        /\ HasExpression(call'.endpoint)) =>
            /\ ~response'.success
            /\ queue' = queue]_vars

\* the position of the first message of q, in queue order, that the
\* expression selects; 0 when it selects none
FirstMatch(q, expression) ==
    IF \E i \in DOMAIN q : Matches(q[i].body, expression)
    THEN CHOOSE i \in DOMAIN q :
            /\ Matches(q[i].body, expression)
            /\ \A j \in 1..(i - 1) : ~Matches(q[j].body, expression)
    ELSE 0

\* q without the message at position i
Without(q, i) == [j \in 1..(Len(q) - 1) |-> IF j < i THEN q[j] ELSE q[j + 1]]

NothingToGet(q, endpoint) ==
    \/ endpoint = PlainEndpoint /\ q = <<>>
    \/ endpoint = ExprEndpoint /\ FirstMatch(q, ValueOf(ExprEndpoint, "expression")) = 0

\* C27: a GET of the pymqi module whose request sets message_wait to 0 and
\* that finds no message fails without having waited, with or without an
\* expression and whatever message_wait the CONN recorded.
C27_ZeroMeansNoWait ==
    [][(/\ GetCalled
        /\ variant = "native"
        /\ call'.message_wait = 0
        /\ NothingToGet(queue, call'.endpoint)) =>
            /\ ~response'.success
            /\ effect'.waited = 0]_vars

\* a PUT or GET request on the queue, without expression
PlainRequest(action, payload) ==
    [action |-> action, context |-> NoContext, payload |-> payload,
     endpoint |-> PlainEndpoint, message_wait |-> Unset]

\* C29: on a connected instance and an empty queue, a PUT of p followed by a
\* GET without expression succeeds, returns p, and both responses carry
\* response_length = len(p).
C29_RoundTrip ==
    (Loaded /\ handler.link = "connected" /\ queue = <<>>) =>
        \A p \in {"x", "u00e9"} :
            LET sent == handle(variant, handlers, handler, queue, PlainRequest("PUT", p), "ok")
                got == handle(variant, handlers, sent.handler, sent.queue,
                              PlainRequest("GET", None), "ok")
            IN  /\ sent.response.success /\ got.response.success
                /\ got.response.payload = p
                /\ got.response.response_length = StrLen(p)
                /\ got.response.response_length = sent.response.response_length

\* ------------------------- _find_message on a queue without a match

\* message_wait in seconds, and the longest browse pass in ticks
MaxWait == 3
MaxPassTicks == 2

\* time is counted in ticks of the 0.5 s that _find_message sleeps
TicksPerSecond == 2

callVars == <<variant, handlers, load_pc, handler, queue, response, effect, call>>

\* mutation: the timeout is raised only when the elapsed time exceeds message_wait
TimedOutLate(elapsed, message_wait) == elapsed > message_wait * TicksPerSecond

\* message_wait is not None and cur_time - start_time >= message_wait
TimedOut(elapsed, message_wait) == elapsed >= message_wait * TicksPerSecond

\* _find_message is entered: start_time = time()
BrowseStart(message_wait) ==
    /\ browse.pc = "idle"
    /\ browse' = [pc |-> "pass", message_wait |-> message_wait, elapsed |-> 0,
                  passes |-> 0, text |-> None]
    /\ UNCHANGED <<daemonVars, processVars, callVars, retry, consumers, client_calls>>

\* one browse pass, from BROWSE_FIRST by BROWSE_NEXT to MQRC_NO_MSG_AVAILABLE,
\* over messages the expression does not select; then cur_time = time()
BrowsePass(ticks) ==
    /\ browse.pc = "pass"
    /\ browse' = [browse EXCEPT !.pc = "check", !.passes = @ + 1, !.elapsed = @ + ticks]
    /\ UNCHANGED <<daemonVars, processVars, callVars, retry, consumers, client_calls>>

\* the test after the pass: raise the timeout, or go to sleep
BrowseCheck ==
    /\ browse.pc = "check"
    /\ browse' = IF TimedOut(browse.elapsed, browse.message_wait)
                 THEN [browse EXCEPT !.pc = "raised",
                          !.text = "AsyncMessageQueueHandler: timeout while waiting for matching message"]
                 ELSE [browse EXCEPT !.pc = "sleep"]
    /\ UNCHANGED <<daemonVars, processVars, callVars, retry, consumers, client_calls>>

\* sleep(0.5), then the next iteration of the outer loop
BrowseSleep ==
    /\ browse.pc = "sleep"
    /\ browse' = [browse EXCEPT !.pc = "pass", !.elapsed = @ + 1]
    /\ UNCHANGED <<daemonVars, processVars, callVars, retry, consumers, client_calls>>

NextBrowse ==
    \/ \E message_wait \in 0..MaxWait : BrowseStart(message_wait)
    \/ \E ticks \in 0..MaxPassTicks : BrowsePass(ticks)
    \/ BrowseCheck
    \/ BrowseSleep

\* a connected instance of mq.py before a GET with an expression
InitBrowse ==
    /\ InitDaemon
    /\ InitHandler
    /\ variant = "native"

SpecBrowse == InitBrowse /\ [][NextBrowse]_vars

\* _find_message runs
Browsing == browse.pc # "idle"

max_retries == 5

\* what one requests.post or requests.get does: a response below 400, an
\* exception whose text holds 'RemoteDisconnected', or another failure
Results == {"ok", "RemoteDisconnected", "other"}

\* _request reaches the PUT or the GET branch
HttpStart(action) ==
    /\ retry.pc = "idle"
    /\ retry' = [pc |-> "issue", action |-> action, retries |-> 0, attempts |-> 0,
                 sleeps |-> <<>>, last |-> None]
    /\ UNCHANGED <<daemonVars, processVars, callVars, browse, consumers, client_calls>>

\* requests.post, or requests.get inside the retry loop, and the handling of
\* what it raises
HttpIssue(result) ==
    /\ retry.pc = "issue"
    /\ retry' =
         LET issued == [retry EXCEPT !.attempts = @ + 1, !.last = result]
         IN  IF result = "ok" THEN [issued EXCEPT !.pc = "done"]
             ELSE IF retry.action = "GET" /\ result = "RemoteDisconnected"
             THEN IF retry.retries + 1 < max_retries
                  THEN [issued EXCEPT !.pc = "sleep", !.retries = @ + 1]
                  ELSE [issued EXCEPT !.pc = "failed", !.retries = @ + 1]
             ELSE [issued EXCEPT !.pc = "failed"]
    /\ UNCHANGED <<daemonVars, processVars, callVars, browse, consumers, client_calls>>

\* sleep(retries * 2 + random.randint(1, 5)), then the next iteration
HttpSleep(jitter) ==
    /\ retry.pc = "sleep"
    /\ retry' = [retry EXCEPT !.pc = "issue",
                              !.sleeps = Append(@, retry.retries * 2 + jitter)]
    /\ UNCHANGED <<daemonVars, processVars, callVars, browse, consumers, client_calls>>

NextRetry ==
    \/ \E action \in {"PUT", "GET"} : HttpStart(action)
    \/ \E result \in Results : HttpIssue(result)
    \/ \E jitter \in 1..5 : HttpSleep(jitter)

SpecRetry == Init /\ [][NextRetry]_vars

\* C28: a PUT is issued once and never slept for; the sleep before re-issue
\* number k of a GET is 2k + 1 to 2k + 5 seconds; a GET fails on another
\* error at once; and a GET that fails because the remote end kept
\* disconnecting has been issued once and re-issued 5 times.
C28_RetryPolicy ==
    retry.pc # "idle" =>
        /\ retry.action = "PUT" => retry.attempts <= 1 /\ retry.sleeps = <<>>
        /\ \A k \in DOMAIN retry.sleeps :
              retry.sleeps[k] \in (2 * k + 1)..(2 * k + 5)
        /\ Len(retry.sleeps) \in {retry.attempts - 1, retry.attempts}
        /\ (retry.pc = "failed" /\ retry.action = "GET"
                /\ retry.last = "RemoteDisconnected") => retry.attempts = 1 + 5

\* ---------------- several workers GET with an expression on one queue

Consumers == {1, 2}
MaxProduced == 3

\* the message ids a consumer has selected or been given
HeldBy(cs) ==
    UNION {{cs[c].msg_id} \cup cs[c].returned : c \in Consumers} \ {0}

\* mutation: the get returns the message the browse saw, on the queue or not
GetBrowsed(q, id) == [found |-> TRUE, queue |-> WithoutId(q, id)]

\* queue.get with MQMO_MATCH_MSG_ID: the message with the id is taken off the
\* queue in one step of the queue manager; without it the get fails
GetById(q, id) ==
    IF id \in IdsOn(q)
    THEN [found |-> TRUE, queue |-> WithoutId(q, id)]
    ELSE [found |-> FALSE, queue |-> q]

\* the workers are connected and idle, the queue is empty
InitConsumers ==
    /\ InitDaemon
    /\ variant = "native"
    /\ handlers = [a \in Actions |-> NoHandler]
    /\ load_pc = 0
    /\ handler = [link |-> "connected", url |-> None, message_wait |-> 0]
    /\ queue = <<>>
    /\ response = [success |-> FALSE, worker |-> NoWorker, message |-> None,
                   payload |-> None, response_length |-> 0, response_time |-> 0]
    /\ effect = [backend |-> FALSE, waited |-> 0, taken |-> 0]
    /\ call = NoCall
    /\ browse = Idle /\ retry = Idle /\ client_calls = Idle
    /\ parent = Idle /\ executor = Idle
    /\ consumers = [c \in Consumers |-> [pc |-> "idle", msg_id |-> 0, returned |-> {}]]

\* another client puts a message on the queue
Produce(body) ==
    /\ Len(queue) + Cardinality(HeldBy(consumers) \ IdsOn(queue)) < MaxProduced
    /\ queue' = Append(queue, [id |-> FreshId(queue, HeldBy(consumers)), body |-> body])
    /\ UNCHANGED <<daemonVars, processVars, variant, handlers, load_pc, handler, response, effect,
                   call, browse, retry, consumers, client_calls>>

\* _find_message of worker c: a browse pass that selects a message id, or
\* finds none and times out
Browse(c) ==
    /\ consumers[c].pc = "idle"
    /\ consumers' =
         [consumers EXCEPT ![c] =
             IF FindMessage(queue, ValueOf(ExprEndpoint, "expression")) = 0
             THEN [@ EXCEPT !.pc = "failed"]
             ELSE [@ EXCEPT !.pc = "selected",
                     !.msg_id = FindMessage(queue, ValueOf(ExprEndpoint, "expression"))]]
    /\ UNCHANGED <<daemonVars, processVars, callVars, browse, retry, client_calls>>

\* the destructive get of worker c by the id it selected
Fetch(c) ==
    /\ consumers[c].pc = "selected"
    /\ LET r == GetById(queue, consumers[c].msg_id)
       IN  /\ queue' = r.queue
           /\ consumers' =
                [consumers EXCEPT ![c] =
                    IF r.found
                    THEN [@ EXCEPT !.pc = "returned", !.returned = @ \cup {consumers[c].msg_id}]
                    ELSE [@ EXCEPT !.pc = "failed"]]
    /\ UNCHANGED <<daemonVars, processVars, variant, handlers, load_pc, handler, response, effect,
                   call, browse, retry, client_calls>>

\* the worker answers its client and takes the next GET
NextGet(c) ==
    /\ consumers[c].pc \in {"returned", "failed"}
    /\ consumers' = [consumers EXCEPT ![c] = [@ EXCEPT !.pc = "idle", !.msg_id = 0]]
    /\ UNCHANGED <<daemonVars, processVars, callVars, browse, retry, client_calls>>

NextConsumers ==
    \/ \E body \in {"x", "u00e9"} : Produce(body)
    \/ \E c \in Consumers : Browse(c)
    \/ \E c \in Consumers : Fetch(c)
    \/ \E c \in Consumers : NextGet(c)

SpecConsumers == InitConsumers /\ [][NextConsumers]_vars

\* C25: no message id is returned to two workers, and a message returned to
\* a worker is no longer on the queue.
C25_AtMostOneConsumer ==
    /\ \A c, d \in Consumers :
          c # d => consumers[c].returned \cap consumers[d].returned = {}
    /\ \A c \in Consumers : consumers[c].returned \cap IdsOn(queue) = {}

\* both workers selected the same message id; one obtained the message and
\* the other's get by that id failed
C25_Witness ==
    \E c, d \in Consumers :
        /\ c # d
        /\ consumers[c].pc = "returned" /\ consumers[d].pc = "failed"
        /\ consumers[c].msg_id # 0
        /\ consumers[d].msg_id = consumers[c].msg_id
        /\ consumers[c].msg_id \in consumers[c].returned

\* ------------------------------ async_message_request of one client

MaxCalls == 3

\* request.get('request_id') as the caller passes the request: 0 when the
\* request has none, else the id the caller wrote
GivenIds == {0, 101, 102}

\* uuid.uuid4().hex of the n-th call: a value no earlier call drew
uuid4(n) == n

\* the responses the polling loop may receive: with success or without, and
\* with the abort message, another message or none
Responses == [success : BOOLEAN, message : {None, "abort", "boom"}]

\* mutation: every response with success = false raises AsyncMessageError
OutcomeAbortAsError(received) ==
    IF ~received.success
    THEN [result |-> "AsyncMessageError", text |-> received.message]
    ELSE [result |-> "returned", text |-> None]

\* how the call ends for the response it received: the exception it raises
\* and the message the exception carries, or the return of the response
Outcome(received) ==
    IF ~received.success
    THEN IF received.message = "abort"
         THEN [result |-> "AsyncMessageAbort", text |-> None]
         ELSE [result |-> "AsyncMessageError", text |-> received.message]
    ELSE [result |-> "returned", text |-> None]

\* the client calls async_message_request for the first time
ClientStart ==
    /\ client_calls.pc = "idle"
    /\ client_calls' = [pc |-> "ready", sent |-> <<>>]
    /\ UNCHANGED <<daemonVars, processVars, callVars, browse, retry, consumers>>

\* one call: set request['request_id'], send the request, poll for the
\* response, and return it or raise AsyncMessageError or AsyncMessageAbort
ClientCall(given, received) ==
    /\ client_calls.pc = "ready"
    /\ Len(client_calls.sent) < MaxCalls
    /\ client_calls' =
         [client_calls EXCEPT !.sent =
             Append(@, [given |-> given,
                        request_id |-> uuid4(Len(client_calls.sent) + 1),
                        received |-> received,
                        result |-> Outcome(received).result,
                        text |-> Outcome(received).text,
                        returned |-> IF Outcome(received).result = "returned"
                                     THEN <<received>> ELSE <<>>])]
    /\ UNCHANGED <<daemonVars, processVars, callVars, browse, retry, consumers>>

NextClient ==
    \/ ClientStart
    \/ \E given \in GivenIds, received \in Responses : ClientCall(given, received)

SpecClient == Init /\ [][NextClient]_vars

\* C30: a request that carries a request_id is sent with that id, a request
\* without one is sent with a generated id, and no generated id is sent twice.
C30_RequestIdKept ==
    client_calls.pc = "ready" =>
        /\ \A i \in DOMAIN client_calls.sent :
              IF client_calls.sent[i].given # 0
              THEN client_calls.sent[i].request_id = client_calls.sent[i].given
              ELSE client_calls.sent[i].request_id # 0
        /\ \A i, j \in DOMAIN client_calls.sent :
              (i # j /\ client_calls.sent[i].given = 0 /\ client_calls.sent[j].given = 0)
                  => client_calls.sent[i].request_id # client_calls.sent[j].request_id

\* C31: every call that received a response ended in the one outcome the
\* response decides: success = false with the message "abort" raised
\* AsyncMessageAbort, any other success = false raised AsyncMessageError
\* carrying the message of the response, and any other response was
\* returned as received; no other response raised AsyncMessageAbort.
C31_ThreeOutcomes ==
    client_calls.pc = "ready" =>
        \A i \in DOMAIN client_calls.sent :
            LET s == client_calls.sent[i]
            IN  /\ (~s.received.success /\ s.received.message = "abort") =>
                      s.result = "AsyncMessageAbort" /\ s.returned = <<>>
                /\ (~s.received.success /\ s.received.message # "abort") =>
                      /\ s.result = "AsyncMessageError"
                      /\ s.text = s.received.message
                      /\ s.returned = <<>>
                /\ s.received.success =>
                      s.result = "returned" /\ s.returned = <<s.received>>
                /\ s.result = "AsyncMessageAbort" =>
                      ~s.received.success /\ s.received.message = "abort"

\* one client saw all three: an abort, an error, and a returned response
\* (a successful one whose message is "abort")
C31_Witness ==
    /\ client_calls.pc = "ready"
    /\ Len(client_calls.sent) = 3
    /\ client_calls.sent[1].result = "AsyncMessageAbort"
    /\ client_calls.sent[2].result = "AsyncMessageError"
    /\ client_calls.sent[2].text = "boom"
    /\ client_calls.sent[3].result = "returned"
    /\ client_calls.sent[3].received.message = "abort"

\* the request_ids of the requests client c has sent on its socket
SentBy(c) ==
    {d.request_id : d \in {e \in dispatched : e.ident = c}}
        \cup {frontend_in[c][i].request_id : i \in DOMAIN frontend_in[c]}

\* the request_id of the request client c is waiting on: its latest
OutstandingOf(c) == CHOOSE id \in SentBy(c) : \A other \in SentBy(c) : other <= id

\* C32: a response on its way to a client that carries a request_id carries
\* the request_id of the request that client has sent and is waiting on.
C32_ResponseCarriesRequestId ==
    \A c \in Clients :
        \A i \in DOMAIN frontend_out[c] :
            frontend_out[c][i].request_id # 0 =>
                /\ waiting[c]
                /\ SentBy(c) # {}
                /\ frontend_out[c][i].request_id = OutstandingOf(c)

\* the second request of a client was refused by the worker itself, and the
\* refusal on its way to that client carries the id of that request
C32_Witness ==
    \E c \in Clients :
        /\ waiting[c]
        /\ Cardinality(SentBy(c)) = 2
        /\ Len(frontend_out[c]) = 1
        /\ ~frontend_out[c][1].success
        /\ frontend_out[c][1].request_id = OutstandingOf(c)

\* --------------------------------------- main and the router process

\* run_daemon is a threading.Event: Process(target=router, args=(run_daemon,))
\* hands the child a copy, and the handlers main installed for SIGTERM and
\* SIGINT are inherited by the child, where they set the child's copy.
\* exitcode is <<>> while the child has not been reaped, else <<code>>.
unitRest == <<callVars, browse, retry, consumers, client_calls, executor>>

\* the number of signals the model delivers to either process
MaxSignals == 2

\* exit code of a process ended by SIGKILL
Killed == -9

\* process.exitcode or 0
ExitCodeOrZero(exitcode) ==
    IF exitcode = <<>> \/ exitcode[1] = 0 THEN 0 ELSE exitcode[1]

\* main up to run_daemon.wait(): the handlers are installed, the child started
MainStart ==
    /\ parent.pc = "idle"
    /\ parent' = [pc |-> "wait", event |-> FALSE, child_event |-> FALSE,
                  child |-> "running", exitcode |-> <<>>, signals |-> 0,
                  ended |-> "no", killed |-> FALSE, interrupted |-> FALSE,
                  result |-> <<>>]
    /\ UNCHANGED <<daemonVars, unitRest>>

\* SIGINT or SIGTERM reaches the parent: signal_handler sets its Event
ParentSignal ==
    /\ parent.pc \notin {"idle", "done"}
    /\ parent.signals < MaxSignals
    /\ parent' = [parent EXCEPT !.event = TRUE, !.signals = @ + 1]
    /\ UNCHANGED <<daemonVars, unitRest>>

\* SIGINT or SIGTERM reaches the child: the inherited handler sets its Event
ChildSignal ==
    /\ parent.pc \notin {"idle", "done"}
    /\ parent.child = "running"
    /\ parent.signals < MaxSignals
    /\ parent' = [parent EXCEPT !.child_event = TRUE, !.signals = @ + 1]
    /\ UNCHANGED <<daemonVars, unitRest>>

\* the router returns in the child: its loop found the event set and the
\* shutdown sequence finished ("event"), or an exception ended the try block
\* ("exception"); router sets the event of its process; the child exits 0
RouterReturns(cause) ==
    /\ parent.pc \notin {"idle", "done"}
    /\ parent.child = "running"
    /\ cause = "event" => parent.child_event
    /\ parent' = [parent EXCEPT !.child = "exited", !.child_event = TRUE,
                                !.ended = IF parent.child_event THEN "event" ELSE cause]
    /\ UNCHANGED <<daemonVars, unitRest>>

\* the child ends with an exception outside the try block of router (bind)
RouterFails ==
    /\ parent.pc \notin {"idle", "done"}
    /\ parent.child = "running"
    /\ ~parent.child_event
    /\ parent' = [parent EXCEPT !.child = "failed", !.ended = "failed"]
    /\ UNCHANGED <<daemonVars, unitRest>>

\* the code the operating system holds for a child that has ended
CodeOf(child) ==
    IF child = "exited" THEN <<0>> ELSE IF child = "failed" THEN <<1>>
    ELSE IF child = "dead" THEN <<Killed>> ELSE <<>>

\* run_daemon.wait() returns; process.terminate() sends SIGTERM to the child
MainTerminate ==
    /\ parent.pc = "wait"
    /\ parent.event
    /\ parent' = [parent EXCEPT !.pc = "join",
                    !.child_event = IF parent.child = "running" THEN TRUE ELSE @]
    /\ UNCHANGED <<daemonVars, unitRest>>

\* process.join(timeout=3.0) returns, the child ended or not; then
\* `if process.is_alive(): process.kill()`
MainJoin ==
    /\ parent.pc = "join"
    /\ parent' = IF parent.child = "running"
                 THEN [parent EXCEPT !.pc = "return", !.child = "killing", !.killed = TRUE]
                 ELSE [parent EXCEPT !.pc = "return", !.exitcode = CodeOf(parent.child)]
    /\ UNCHANGED <<daemonVars, unitRest>>

\* SIGKILL has ended the child
ChildDies ==
    /\ parent.pc \notin {"idle"}
    /\ parent.child = "killing"
    /\ parent' = [parent EXCEPT !.child = "dead"]
    /\ UNCHANGED <<daemonVars, unitRest>>

\* return process.exitcode or 0: exitcode polls the child
MainReturn ==
    /\ parent.pc = "return"
    /\ parent' = [parent EXCEPT !.pc = "done", !.exitcode = CodeOf(parent.child),
                                !.result = <<ExitCodeOrZero(CodeOf(parent.child))>>]
    /\ UNCHANGED <<daemonVars, unitRest>>

\* KeyboardInterrupt is raised inside the try block: return 1
MainInterrupt ==
    /\ parent.pc \in {"wait", "join", "return"}
    /\ parent' = [parent EXCEPT !.pc = "done", !.interrupted = TRUE, !.result = <<1>>]
    /\ UNCHANGED <<daemonVars, unitRest>>

NextMain ==
    \/ MainStart
    \/ ParentSignal
    \/ ChildSignal
    \/ \E cause \in {"event", "exception"} : RouterReturns(cause)
    \/ RouterFails
    \/ MainTerminate
    \/ MainJoin
    \/ ChildDies
    \/ MainReturn
    \/ MainInterrupt

SpecMain == Init /\ [][NextMain]_vars

\* C33: main returns 1 when KeyboardInterrupt was raised, else the exit code
\* of the child: 0 when the child stopped by itself with code 0, and never 0
\* when the child had to be killed after the join.
C33_ExitCodes ==
    parent.pc = "done" =>
        /\ parent.interrupted => parent.result = <<1>>
        /\ (~parent.interrupted /\ ~parent.killed) => parent.result = CodeOf(parent.child)
        /\ (~parent.interrupted /\ parent.killed) => parent.result # <<0>>

\* C38: when the router ended on its own in the child, with an exception
\* and without any signal, the Event main waits on is set, so that
\* run_daemon.wait() returns.
C38_EventReachesParent ==
    (parent.pc # "idle" /\ parent.ended = "exception" /\ parent.signals = 0)
        => parent.event

\* --------------------------------------- the executor of the router

\* the number of workers the router spawns in the model
MaxSpawned == 7

\* os.cpu_count() of the machines the model runs the router on
CpuCounts == {1, 2}

\* ThreadPoolExecutor() is constructed without max_workers: the pool takes
\* min(32, (os.cpu_count() or 1) + 4) threads
max_workers(cpu_count) == IF cpu_count + 4 < 32 THEN cpu_count + 4 ELSE 32

executorRest == <<callVars, browse, retry, consumers, client_calls, parent>>

\* positions of the work items in state s
ItemsIn(s) == {i \in 1..Len(executor.items) : executor.items[i] = s}

\* threads of the pool that are not inside a work item
FreeThreads == executor.threads - Cardinality(ItemsIn("running") \cup ItemsIn("ready"))

\* `with ThreadPoolExecutor() as executor`
ExecutorStart ==
    /\ executor.pc = "idle"
    /\ \E cpu_count \in CpuCounts :
          executor' = [pc |-> "open", max_workers |-> max_workers(cpu_count),
                       items |-> <<>>, threads |-> 0, idle |-> 0,
                       event |-> FALSE]
    /\ UNCHANGED <<daemonVars, executorRest>>

\* spawn_worker: executor.submit(worker.run) queues a work item; when the
\* idle semaphore, which a thread releases after it finished a work item,
\* cannot be acquired and the pool has fewer than max_workers threads, it
\* starts a thread.
\* The router spawns at start, and later after it popped a worker that had
\* announced READY.
SpawnWorker ==
    /\ executor.pc = "open"
    /\ ~executor.event
    /\ Len(executor.items) < MaxSpawned
    /\ executor.items = <<>> \/ ItemsIn("ready") # {}
    /\ executor' = [executor EXCEPT
            !.items = Append(@, "queued"),
            !.idle = IF @ > 0 THEN @ - 1 ELSE @,
            !.threads = IF executor.idle = 0 /\ @ < executor.max_workers
                        THEN @ + 1 ELSE @]
    /\ UNCHANGED <<daemonVars, executorRest>>

\* a thread of the pool takes the oldest queued work item: Worker.run begins
ThreadTakes ==
    /\ executor.pc = "open"
    /\ ItemsIn("queued") # {}
    /\ FreeThreads > 0
    /\ LET i == CHOOSE j \in ItemsIn("queued") : \A k \in ItemsIn("queued") : j <= k
       IN executor' = [executor EXCEPT !.items[i] = "running"]
    /\ UNCHANGED <<daemonVars, executorRest>>

\* Worker.run connects its socket and sends LRU_READY
WorkerReady(i) ==
    /\ executor.pc = "open"
    /\ i \in ItemsIn("running")
    /\ ~executor.event
    /\ executor' = [executor EXCEPT !.items[i] = "ready"]
    /\ UNCHANGED <<daemonVars, executorRest>>

\* the shutdown event is set in the router process
EventSet ==
    /\ executor.pc = "open"
    /\ ~executor.event
    /\ executor' = [executor EXCEPT !.event = TRUE]
    /\ UNCHANGED <<daemonVars, executorRest>>

\* `while not self._event.is_set()` ends: Worker.run returns
WorkerReturns(i) ==
    /\ executor.pc = "open"
    /\ executor.event
    /\ i \in ItemsIn("running") \cup ItemsIn("ready")
    /\ executor' = [executor EXCEPT !.items[i] = "done", !.idle = @ + 1]
    /\ UNCHANGED <<daemonVars, executorRest>>

\* ThreadPoolExecutor.__exit__: shutdown(wait=False, cancel_futures=True)
ExecutorExit ==
    /\ executor.pc = "open"
    /\ executor.event
    /\ executor' = [executor EXCEPT !.pc = "shutdown",
            !.items = [i \in DOMAIN @ |-> IF @[i] = "queued" THEN "cancelled" ELSE @[i]]]
    /\ UNCHANGED <<daemonVars, executorRest>>

NextExecutor ==
    \/ ExecutorStart
    \/ SpawnWorker
    \/ ThreadTakes
    \/ \E i \in 1..MaxSpawned : WorkerReady(i)
    \/ EventSet
    \/ \E i \in 1..MaxSpawned : WorkerReturns(i)
    \/ ExecutorExit

SpecExecutor == Init /\ [][NextExecutor]_vars

\* C39: while the shutdown event is unset, every spawned worker that has not
\* started has a thread of the pool to start on: none is left queued behind
\* workers that keep running.
C39_SpawnedWorkerStarts ==
    (executor.pc = "open" /\ ~executor.event)
        => Cardinality(ItemsIn("queued")) <= FreeThreads

\* --------------------------------------- the try block of the worker loop

\* the reply a worker sends in a step: the frames it appends to its socket
SendsReply(w, ident, reply) ==
    backend_in'[w] = Append(backend_in[w], <<RawFrame(ident), JsonFrame(reply)>>)

\* the request held in h leaves the try block in a step
LeavesTry(w, h) == h.stage = "received" /\ h \notin handling'[w]

\* the request held in h is answered in a step
Answered(w, h) == h.stage = "handling" /\ h \notin handling'[w]

\* the responses a worker has sent, oldest first
RepliesOf(w) ==
    SelectSeq(backend_in[w], LAMBDA frames : Len(frames) = 2 /\ "json" \in DOMAIN frames[2])

\* C34: a request whose `worker` field differs from the identity of the
\* worker that received it binds no integration and is not handed to one;
\* the worker answers it with one response that has success false, its own
\* identity, the request_id of the request, response_time 0 and the message
\* 'got <field>, expected <identity>', and stays in its loop.
C34_WorkerMismatch ==
    [][\A w \in WorkerIds : \A h \in handling[w] :
          h.request.worker # w =>
            /\ LeavesTry(w, h) => integration'[w] = integration[w]
            /\ Answered(w, h) =>
                /\ SendsReply(w, h.ident,
                      [request_id |-> h.request.request_id, worker |-> w,
                       response_time |-> 0, success |-> FALSE,
                       message |-> "got " \o WorkerName(h.request.worker)
                                   \o ", expected " \o WorkerName(w)])
                /\ integration'[w] = integration[w]
                /\ worker_pc'[w] = "running"]_vars

\* a bound worker answered a request addressed to another worker, and then
\* served the next request
C34_Witness ==
    /\ integration[1] = "mq"
    /\ Len(RepliesOf(1)) = 2
    /\ RepliesOf(1)[1][2].json.message = "got 2, expected 1"
    /\ RepliesOf(1)[2][2].json.success

BindingSchemes == {"mq", "mqs", "sb"}

\* C35: an unbound worker binds an integration only on a request whose url
\* has the scheme mq, mqs or sb; a request without url or with another scheme
\* leaves it unbound and is answered with an error response; a bound
\* integration is never replaced or unbound.
C35_BindOnce ==
    [][\A w \in WorkerIds :
          /\ integration[w] # NoIntegration => integration'[w] = integration[w]
          /\ (integration[w] = NoIntegration /\ integration'[w] # NoIntegration)
                => \E h \in handling[w] : h.request.scheme \in BindingSchemes
          /\ \A h \in handling[w] :
                (integration[w] = NoIntegration /\ h.request.scheme \notin BindingSchemes)
                    => /\ LeavesTry(w, h) => integration'[w] = NoIntegration
                       /\ Answered(w, h) =>
                            \E reply \in {ErrorResponse(w, h.request)} :
                                /\ ~reply.success
                                /\ SendsReply(w, h.ident, reply)]_vars

\* an unbound worker answered a request with an unknown scheme with an error,
\* was bound by the next request, and kept the integration
C35_Witness ==
    /\ integration[1] = "sb"
    /\ Len(RepliesOf(1)) = 2
    /\ RepliesOf(1)[1][2].json.message = "integration for http:// is not implemented"
    /\ RepliesOf(1)[2][2].json.success

\* --------------------------------------- the order of the shutdown steps

\* worker.socket.close() in the shutdown loop of the router, which sends the
\* abort response in the same iteration just before
RouterCloses(w) ==
    /\ worker_pc[w] = "running"
    /\ worker_pc'[w] = "stopped"
    /\ stop_idx' # stop_idx

\* self.socket.close() at the end of Worker.run
WorkerCloses(w) ==
    /\ worker_pc[w] = "running"
    /\ worker_pc'[w] = "stopped"
    /\ stop_idx' = stop_idx

\* the router sends the abort response for worker w
SendsAbort(w) == RouterCloses(w) /\ integration[w] # NoIntegration

\* C36: the socket of a worker that serves a client is closed only after
\* the abort response for that client was sent; no abort response is sent
\* once a worker socket has been closed; the context is destroyed only when
\* no worker is running on an open socket.
C36_ShutdownOrder ==
    [][/\ \A w \in WorkerIds : integration[w] # NoIntegration => ~WorkerCloses(w)
       /\ \A w \in WorkerIds :
             SendsAbort(w) => \A v \in WorkerIds : worker_pc[v] # "stopped"
       /\ (router_pc = "stopping" /\ router_pc' = "stopped")
             => \A w \in WorkerIds : worker_pc[w] # "running"]_vars

\* identity frames of the clients whose requests worker w received
ClientsOf(w) == {handled[w][i].ident : i \in DOMAIN handled[w]}

\* C37: an entry of worker_identifiers_map is the identity frame of a client
\* whose request was routed to that worker, and never the READY sentinel.
C37_WorkerIdentityMap ==
    \A w \in WorkerIds :
        worker_identifiers_map[w] # NoIdentity =>
            /\ worker_identifiers_map[w] # LRU_READY
            /\ worker_identifiers_map[w] \in ClientsOf(w)

\* the PUT and GET requests that pass the payload test of put and get
QueueRequests ==
    {request \in Requests :
        \/ request.action \in {"PUT", "SEND"} /\ request.payload # None
        \/ request.action \in {"GET", "RECEIVE"} /\ request.payload = None}

\* C40: on an instance without an open connection a PUT or GET is answered
\* with success = false and "not connected", reaches no backend and leaves
\* the instance as it was.
C40_NotConnected ==
    (Loaded /\ handler.link # "connected") =>
        \A request \in QueueRequests, outcome \in Outcomes :
            LET r == handle(variant, handlers, handler, queue, request, outcome)
            IN  /\ ~r.response.success
                /\ r.response.message
                      = ErrorMessage(request.action, "AsyncMessageError", "not connected")
                /\ ~r.effect.backend
                /\ r.handler = handler
                /\ r.queue = queue

====
